---- MODULE Spec2Model ----
\* Model of the adaptive map-reduce executor of crates/dbt-xdbc/src/lib.rs
\* (MapReduceInner, MapReduce::new, ::new_connection, ::worker, ::do_run),
\* and of two functions of crates/dbt-fusion-adapter/src/sql_engine.rs:
\* execute_query_with_retry and
\* ActualEngine::load_driver_and_configure_database.
\*
\* Keys are identified with their index 0..keysLen-1; the value map_f computes
\* for a key is a function of the key, so a message (key, value) on the
\* channel is represented by the key index.  The orchestrator (do_run), every
\* worker task, every blocking connection-factory call and the owner of the
\* cancellation token are separate processes whose steps interleave at the
\* granularity of the atomic operations and await points of the source.
EXTENDS Integers, Sequences, FiniteSets, TLC

\* ---------------------------------------------------------------- bounds
MaxKeys == 3
MaxConnArg == 3
\* sql_engine.rs: largest retry_limit, number of calling threads, number of
\* configuration fingerprints
MaxRetryLimit == 4
MaxThreads == 3
MaxFingerprints == 2
\* elapsed.as_micros() of a connection-factory call / of a map_f call
ConnTimes == {1}
TaskTimes == {2}

Max(a, b) == IF a >= b THEN a ELSE b
Min(a, b) == IF a <= b THEN a ELSE b

\* Identifiers of connection attempts in push order.  The worker spawned on
\* the connection of attempt c is worker c.
ConnIds == 1..(MaxKeys + 1)
KeyIdx == 0..(MaxKeys - 1)

VARIABLES
    keysLen,            \* keys.len()
    new_max_connections,\* the max_connections argument of MapReduce::new
    max_connections,    \* MapReduce.max_connections
    token,              \* CancellationToken: TRUE when cancelled
    key_counter,        \* MapReduceInner.key_counter
    task_count,         \* MapReduceInner.task_count
    total_task_time_us, \* MapReduceInner.total_task_time_us
    conn_count,         \* MapReduceInner.conn_count
    total_conn_time_us, \* MapReduceInner.total_conn_time_us
    pc,                 \* position of do_run
    result,             \* outcome of run: "none" while running
    max_conns,          \* do_run local
    n_conns,            \* do_run local
    conn,               \* conn_futures: state of every connection attempt
    wpc,                \* workers: position of every worker task
    widx,               \* worker local i (the claimed key index)
    wconn,              \* worker parameter conn: the attempt that produced it
    joined,             \* workers already yielded by workers.next()
    chan,               \* the unbounded mpsc channel (FIFO of key indices)
    recv_buffer,        \* do_run local
    acc,                \* do_run local: the accumulator
    txHeld,             \* the orchestrator's tx is not yet dropped
    rxAlive,            \* rx is not yet dropped
    ld,                 \* values loaded so far by the growth heuristic
    mapCalls,           \* history: map_f invocations per key index
    sentCount,          \* history: messages sent per key index
    reduceCalls,        \* history: reduce_f invocations per key index
    hist                \* history: facts about the run recorded when they happen

\* execute_query_with_retry
VARIABLES
    retry_limit,        \* the retry_limit argument
    attempt,            \* local `attempt`
    last_error,         \* local `last_error` ("None" or the error)
    rpc,                \* position: "idle", "while", "returned"
    rret,               \* what the call returned, "unreachable" for the panic
    execLog             \* history: outcomes of the execute_with_options calls

\* ActualEngine::load_driver_and_configure_database
VARIABLES
    configured_databases, \* self.configured_databases.inner (0 = no entry)
    readers,            \* threads holding a read guard of the RwLock
    writer,             \* thread holding the write guard (0 = none)
    dpc,                \* position of every calling thread
    fingerprint,        \* local `fingerprint` of every thread (0 = not yet)
    dret,               \* what every thread's call returned: <<"Ok", database>>
                        \* or <<"Err">>
    created,            \* history: successful new_database_with_opts calls
    createFailed        \* history: failed new_database_with_opts calls

mapReduce == <<keysLen, new_max_connections, max_connections, token, key_counter, task_count,
          total_task_time_us, conn_count, total_conn_time_us, pc, result,
          max_conns, n_conns, conn, wpc, widx, wconn, joined, chan,
          recv_buffer, acc, txHeld, rxAlive, ld, mapCalls, sentCount,
          reduceCalls, hist>>
retry == <<retry_limit, attempt, last_error, rpc, rret, execLog>>
databases == <<configured_databases, readers, writer, dpc, fingerprint, dret,
               created, createFailed>>
sqlEngine == <<retry, databases>>
vars == <<mapReduce, sqlEngine>>

inner == <<key_counter, task_count, total_task_time_us, conn_count,
           total_conn_time_us>>
stats == <<task_count, total_task_time_us, conn_count, total_conn_time_us>>
taskStats == <<task_count, total_task_time_us>>
connStats == <<conn_count, total_conn_time_us>>
config == <<keysLen, new_max_connections, max_connections>>
orchLocals == <<max_conns, n_conns, recv_buffer, acc, ld>>
workerVars == <<wpc, widx, wconn>>
calls == <<mapCalls, sentCount, reduceCalls>>

NoLoads == [rem |-> 0, tc |-> 0, tt |-> 0]

NoHist == [firstTaken    |-> 0,      \* attempt yielded by the first next()
           errAt         |-> "none", \* where an ordinary error was met
           errCancelled  |-> FALSE,  \* token state when it was met
           reduceErrKey  |-> -1,     \* key of the failed reduce_f call
           reducesAtErr  |-> -1,     \* reduce_f invocations up to the failure
           errBatchLeft  |-> -1,     \* results of the batch not yet reduced then
           cancelUnclaimed |-> FALSE,\* cancelled mid-run with unclaimed keys
           observedAt    |-> -1,     \* key_counter when do_run saw the token
           cancelFrom    |-> "none", \* position that returned the cancellation
           cancelBudget  |-> -1,     \* max_conns - n_conns at a mid-run cancel
           itersAfterCancel |-> 0]   \* loop iterations begun after that cancel

\* ------------------------------------------------- the caller's functions
\* map_f is deterministic: the value computed for the key of index k
MapF(k) == k + 1

\* Acc::default()
AccDefault == 0

\* reduce_f folds a value into the accumulator; here a sum, which is
\* commutative and associative
ReduceF(a, k, v) == a + v

\* ------------------------------------------------------------ MapReduce::new
\* Mutant: the argument is stored without the clamp.
ClampMissing(arg) == arg

\* max_connections: max_connections.max(2)
ClampMaxConnections(arg) == Max(arg, 2)

Threads == 1..MaxThreads
Fingerprints == 1..MaxFingerprints

\* No call of execute_query_with_retry is being made.
RetryIdle ==
    /\ retry_limit = 0
    /\ attempt = 0
    /\ last_error = "None"
    /\ rpc = "idle"
    /\ rret = "none"
    /\ execLog = <<>>

\* No ActualEngine is in use.
DatabasesIdle ==
    /\ configured_databases = [f \in Fingerprints |-> 0]
    /\ readers = {}
    /\ writer = 0
    /\ dpc = [t \in Threads |-> "idle"]
    /\ fingerprint = [t \in Threads |-> 0]
    /\ dret = [t \in Threads |-> <<"none">>]
    /\ created = [f \in Fingerprints |-> 0]
    /\ createFailed = [f \in Fingerprints |-> 0]

MapReduceInit ==
    /\ keysLen \in 0..MaxKeys
    /\ new_max_connections \in 0..MaxConnArg
    /\ max_connections = ClampMaxConnections(new_max_connections)
    /\ token = FALSE
    /\ key_counter = 0
    /\ task_count = 0
    /\ total_task_time_us = 0
    /\ conn_count = 0
    /\ total_conn_time_us = 0
    /\ pc = "start"
    /\ result = "none"
    /\ max_conns = 0
    /\ n_conns = 0
    /\ conn = [c \in ConnIds |-> "none"]
    /\ wpc = [w \in ConnIds |-> "none"]
    /\ widx = [w \in ConnIds |-> 0]
    /\ wconn = [w \in ConnIds |-> 0]
    /\ joined = {}
    /\ chan = <<>>
    /\ recv_buffer = <<>>
    /\ acc = AccDefault
    /\ txHeld = TRUE
    /\ rxAlive = TRUE
    /\ ld = NoLoads
    /\ mapCalls = [k \in KeyIdx |-> 0]
    /\ sentCount = [k \in KeyIdx |-> 0]
    /\ reduceCalls = [k \in KeyIdx |-> 0]
    /\ hist = NoHist

Init ==
    /\ MapReduceInit
    /\ RetryIdle
    /\ DatabasesIdle

\* ------------------------------------------------------------ return paths
\* do_run returns (or unwinds): its locals tx, rx, recv_buffer, conn_futures
\* and workers are dropped.  Spawned worker tasks and blocking calls that are
\* already running are detached and keep running.
Return(r) ==
    /\ result' = r
    /\ pc' = "done"
    /\ txHeld' = FALSE
    /\ rxAlive' = FALSE
    /\ chan' = <<>>
    /\ recv_buffer' = <<>>
    /\ ld' = NoLoads

\* Mutant: the result of check_cancellation() is dropped (no `?`).
CheckCancellationDropped(next) ==
    /\ pc' = next
    /\ hist' = IF token /\ hist.observedAt < 0
               THEN [hist EXCEPT !.observedAt = key_counter]
               ELSE hist
    /\ UNCHANGED <<result, txHeld, rxAlive, chan, recv_buffer, ld>>

\* token.check_cancellation()? : Err(Cancelled) when the token is cancelled,
\* otherwise execution continues at position `next`.
CheckCancellation(next) ==
    IF token
    THEN /\ Return("Cancelled")
         /\ hist' = [hist EXCEPT !.observedAt = key_counter, !.cancelFrom = pc]
    ELSE /\ pc' = next
         /\ UNCHANGED <<result, txHeld, rxAlive, chan, recv_buffer, ld, hist>>

\* ------------------------------------------------- MapReduceInner helpers
\* Mutant: the total task time is used where the average is meant.
ShouldGrowTotalTime(rem, tc, tt, cc, ct, n) ==
    rem * tt * Max(cc, 1) * 2 > 3 * ct * n

\* Mutant: the comparison is inverted.
ShouldGrowInverted(rem, tc, tt, cc, ct, n) ==
    rem * tt * Max(cc, 1) * 2 < 3 * ct * n * Max(tc, 1)

\* (remaining_keys * avg_task_time_us()) / n_conns > avg_conn_time_us() * K
\* with avg_x = total_x / max(count_x, 1) and K = 1.5, over the rationals
\* (all denominators are positive, so the comparison is cross-multiplied).
\* For the counts and times that occur here (at most 5 connections and
\* tasks, times from ConnTimes and TaskTimes) the f64 evaluation of the
\* source gives the same answer as the exact comparison.
ShouldGrow(rem, tc, tt, cc, ct, n) ==
    rem * tt * Max(cc, 1) * 2 > 3 * ct * n * Max(tc, 1)

\* remaining_keys block of do_run
RemainingKeys(kc) == IF kc < keysLen THEN keysLen - kc ELSE 0

\* ---------------------------------------------------- connection attempts
Pending(c) == conn[c] \in {"pushed", "running", "counted", "ok", "err", "panicked"}
Completed(c) == conn[c] \in {"ok", "err", "panicked"}
Started(c) == conn[c] \notin {"none", "pushed"}
InFlight(c) == conn[c] = "running"

AtConnAwait == pc \in {"await_first", "await_conn"}

\* conn_futures.next() polls a future for the first time: the async block of
\* MapReduce::new_connection runs spawn_blocking(inner.new_connection()).
\* FuturesUnordered polls newly pushed futures in push order.
StartConn ==
    /\ AtConnAwait
    /\ \E c \in ConnIds :
         /\ conn[c] = "pushed"
         /\ \A d \in ConnIds : d < c => conn[d] # "pushed"
         /\ conn' = [conn EXCEPT ![c] = "running"]
    /\ UNCHANGED <<config, sqlEngine, token, inner, pc, result, orchLocals, workerVars,
                   joined, chan, txHeld, rxAlive, calls, hist>>

\* MapReduceInner::new_connection: the factory returns Ok and
\* conn_count.fetch_add(1) is executed.
ConnReturnOk(c) ==
    /\ conn[c] = "running"
    /\ conn' = [conn EXCEPT ![c] = "counted"]
    /\ conn_count' = conn_count + 1
    /\ UNCHANGED <<config, sqlEngine, token, key_counter, taskStats, total_conn_time_us,
                   pc, result, orchLocals, workerVars, joined, chan, txHeld,
                   rxAlive, calls, hist>>

\* MapReduceInner::new_connection: total_conn_time_us.fetch_add(elapsed);
\* the blocking task finishes with Ok(conn).
ConnRecordTime(c) ==
    /\ conn[c] = "counted"
    /\ \E e \in ConnTimes : total_conn_time_us' = total_conn_time_us + e
    /\ conn' = [conn EXCEPT ![c] = "ok"]
    /\ UNCHANGED <<config, sqlEngine, token, key_counter, taskStats, conn_count, pc,
                   result, orchLocals, workerVars, joined, chan, txHeld,
                   rxAlive, calls, hist>>

\* Mutant: the call is counted before its result is looked at.
ConnReturnErrCounted(c) ==
    /\ conn[c] = "running"
    /\ conn' = [conn EXCEPT ![c] = "err"]
    /\ conn_count' = conn_count + 1
    /\ UNCHANGED <<config, sqlEngine, token, key_counter, taskStats, total_conn_time_us,
                   pc, result, orchLocals, workerVars, joined, chan, txHeld,
                   rxAlive, calls, hist>>

\* MapReduceInner::new_connection: the factory returns Err; no statistics.
ConnReturnErr(c) ==
    /\ conn[c] = "running"
    /\ conn' = [conn EXCEPT ![c] = "err"]
    /\ UNCHANGED <<config, sqlEngine, token, inner, pc, result, orchLocals, workerVars,
                   joined, chan, txHeld, rxAlive, calls, hist>>

\* The factory panics inside the blocking task: the JoinHandle yields a
\* JoinError with is_panic().
ConnPanic(c) ==
    /\ conn[c] = "running"
    /\ conn' = [conn EXCEPT ![c] = "panicked"]
    /\ UNCHANGED <<config, sqlEngine, token, inner, pc, result, orchLocals, workerVars,
                   joined, chan, txHeld, rxAlive, calls, hist>>

\* Mutant: every worker is handed the connection that was obtained first.
WorkerConnShared(c) == IF hist.firstTaken = 0 THEN c ELSE hist.firstTaken

\* the connection moved into the worker spawned for attempt c
WorkerConn(c) == c

\* tokio::spawn(self.worker(conn, tx.clone(), keys.clone(), &token))
SpawnWorker(c) ==
    /\ conn' = [conn EXCEPT ![c] = "spawned"]
    /\ wpc' = [wpc EXCEPT ![c] = "claim"]
    /\ wconn' = [wconn EXCEPT ![c] = WorkerConn(c)]

\* ------------------------------------------------------------------ do_run
\* Mutant: the early return for an empty key sequence is missing.
KeysEmptyIgnored == FALSE

\* keys.is_empty()
KeysEmpty == keysLen = 0

\* Mutant: one speculative connection too many is started up front.
InitialConnsThree(mc) == IF mc > 1 THEN 3 ELSE 1

\* number of connection futures pushed before the first await
InitialConns(mc) == IF mc > 1 THEN 2 ELSE 1

\* lines 326-348: the empty check, the channel, max_conns, the initial pushes
RunStart ==
    /\ pc = "start"
    /\ IF KeysEmpty
       THEN /\ Return("Ok")
            /\ UNCHANGED <<max_conns, n_conns, conn>>
       ELSE /\ max_conns' = Min(keysLen, max_connections)
            /\ n_conns' = InitialConns(max_conns')
            /\ conn' = [c \in ConnIds |->
                          IF c <= n_conns' THEN "pushed" ELSE "none"]
            /\ pc' = "await_first"
            /\ UNCHANGED <<result, txHeld, rxAlive, chan, recv_buffer, ld>>
    /\ UNCHANGED <<config, sqlEngine, token, inner, acc, workerVars, joined, calls, hist>>

\* line 352, Ok: conn_futures.next().await.unwrap()? yields a connection;
\* lines 353-354 spawn the first worker.
AwaitFirstOk ==
    /\ pc = "await_first"
    /\ \E c \in ConnIds :
         /\ conn[c] = "ok"
         /\ SpawnWorker(c)
         /\ hist' = [hist EXCEPT !.firstTaken = c]
    /\ pc' = "loop_cond"
    /\ UNCHANGED <<config, sqlEngine, token, inner, result, orchLocals, widx, joined,
                   chan, txHeld, rxAlive, calls>>

\* Mutant: the error of the first future is dropped like the later ones.
AwaitFirstErrAbsorbed ==
    /\ pc = "await_first"
    /\ \E c \in ConnIds :
         /\ conn[c] = "err"
         /\ conn' = [conn EXCEPT ![c] = "fatal"]
         /\ hist' = [hist EXCEPT !.firstTaken = c]
    /\ pc' = "loop_cond"
    /\ UNCHANGED <<config, sqlEngine, token, inner, result, orchLocals, workerVars,
                   joined, chan, txHeld, rxAlive, calls>>

\* line 352, Err: the first future to complete failed and `?` returns it.
AwaitFirstErr ==
    /\ pc = "await_first"
    /\ \E c \in ConnIds :
         /\ conn[c] = "err"
         /\ conn' = [conn EXCEPT ![c] = "fatal"]
         /\ hist' = [hist EXCEPT !.firstTaken = c, !.errAt = "conn",
                                 !.errCancelled = token]
    /\ Return("ConnErr")
    /\ UNCHANGED <<config, sqlEngine, token, inner, max_conns, n_conns, acc, workerVars,
                   joined, calls>>

\* lines 252-255 with 437-445: a connection future whose blocking task
\* panicked resumes the panic when conn_futures.next() polls it.
AwaitConnPanic ==
    /\ AtConnAwait
    /\ \E c \in ConnIds :
         /\ conn[c] = "panicked"
         /\ conn' = [conn EXCEPT ![c] = "unwound"]
    /\ Return("Panic")
    /\ UNCHANGED <<config, sqlEngine, token, inner, max_conns, n_conns, acc, workerVars,
                   joined, calls, hist>>

\* Mutant: tx is still held when the workers are joined.
TxAfterLoopKept == TRUE

\* line 396: drop(tx)
TxAfterLoop == FALSE

\* Mutant: the final drain comes before the join loop.
AfterLoopDrains == "final_recv"

\* lines 396-399: what follows the main loop is the join loop
AfterLoop == "join"

\* line 356 / 396: the loop condition; leaving the loop drops tx.
LoopCond ==
    /\ pc = "loop_cond"
    /\ IF key_counter < keysLen
       THEN /\ pc' = "await_conn"
            /\ hist' = IF token /\ hist.cancelBudget >= 0
                       THEN [hist EXCEPT !.itersAfterCancel = @ + 1]
                       ELSE hist
            /\ UNCHANGED txHeld
       ELSE /\ pc' = AfterLoop
            /\ txHeld' = TxAfterLoop
            /\ UNCHANGED hist
    /\ UNCHANGED <<config, sqlEngine, token, inner, result, orchLocals, conn, workerVars,
                   joined, chan, rxAlive, calls>>

\* lines 357-360, Some(Ok(conn)): spawn another worker.
AwaitConnOk ==
    /\ pc = "await_conn"
    /\ \E c \in ConnIds :
         /\ conn[c] = "ok"
         /\ SpawnWorker(c)
    /\ pc' = "grow"
    /\ UNCHANGED <<config, sqlEngine, token, inner, result, orchLocals, widx, joined,
                   chan, txHeld, rxAlive, calls, hist>>

\* line 357, Some(Err(_)): the pattern does not match, the error is dropped.
AwaitConnErr ==
    /\ pc = "await_conn"
    /\ \E c \in ConnIds :
         /\ conn[c] = "err"
         /\ conn' = [conn EXCEPT ![c] = "absorbed"]
    /\ pc' = "grow"
    /\ UNCHANGED <<config, sqlEngine, token, inner, result, orchLocals, workerVars,
                   joined, chan, txHeld, rxAlive, calls, hist>>

\* Mutant: next() returns None although futures are pending.
ConnFuturesEmptyAlways == TRUE

\* Mutant: next() returns None when no future is ready yet.
ConnFuturesNoneReady == \A c \in ConnIds : ~Completed(c)

\* conn_futures holds no future: every one pushed has been returned by next().
ConnFuturesEmpty == \A c \in ConnIds : ~Pending(c)

\* line 357, None: conn_futures is empty and next() returns at once.
AwaitConnNone ==
    /\ pc = "await_conn"
    /\ ConnFuturesEmpty
    /\ pc' = "grow"
    /\ UNCHANGED <<config, sqlEngine, token, inner, result, orchLocals, conn, workerVars,
                   joined, chan, txHeld, rxAlive, calls, hist>>

\* Mutant: off by one in the budget test.
MayGrowOffByOne == n_conns <= max_conns

\* line 361: n_conns < max_conns
MayGrow == n_conns < max_conns

\* lines 361-369: the budget test and the load of key_counter.
GrowLoadKeys ==
    /\ pc = "grow"
    /\ IF MayGrow
       THEN /\ ld' = [ld EXCEPT !.rem = RemainingKeys(key_counter)]
            /\ pc' = "grow_tc"
       ELSE /\ pc' = "drain"
            /\ UNCHANGED ld
    /\ UNCHANGED <<config, sqlEngine, token, inner, result, max_conns, n_conns, acc,
                   recv_buffer, conn, workerVars, joined, chan, txHeld,
                   rxAlive, calls, hist>>

\* avg_task_time_us: task_count.load()
GrowLoadTaskCount ==
    /\ pc = "grow_tc"
    /\ ld' = [ld EXCEPT !.tc = task_count]
    /\ pc' = "grow_tt"
    /\ UNCHANGED <<config, sqlEngine, token, inner, result, max_conns, n_conns, acc,
                   recv_buffer, conn, workerVars, joined, chan, txHeld,
                   rxAlive, calls, hist>>

\* avg_task_time_us: total_task_time_us.load()
GrowLoadTaskTime ==
    /\ pc = "grow_tt"
    /\ ld' = [ld EXCEPT !.tt = total_task_time_us]
    /\ pc' = "grow_cc"
    /\ UNCHANGED <<config, sqlEngine, token, inner, result, max_conns, n_conns, acc,
                   recv_buffer, conn, workerVars, joined, chan, txHeld,
                   rxAlive, calls, hist>>

\* avg_conn_time_us (conn_count.load(), total_conn_time_us.load()), then
\* lines 372-378: the comparison, and on success the push, n_conns += 1 and
\* `continue`.  The two loads are one step: between lines 361 and 379 no
\* connection future is being polled, so no factory call is running and
\* neither counter can change between the loads.
GrowDecide ==
    /\ pc = "grow_cc"
    /\ IF ShouldGrow(ld.rem, ld.tc, ld.tt, conn_count, total_conn_time_us,
                     n_conns)
       THEN /\ conn' = [conn EXCEPT ![n_conns + 1] = "pushed"]
            /\ n_conns' = n_conns + 1
            /\ pc' = "loop_cond"
       ELSE /\ pc' = "drain"
            /\ UNCHANGED <<conn, n_conns>>
    /\ ld' = NoLoads
    /\ UNCHANGED <<config, sqlEngine, token, inner, result, max_conns, recv_buffer, acc,
                   workerVars, joined, chan, txHeld, rxAlive, calls, hist>>

\* Mutant: one message more than was copied is removed from the channel.
RecvManyDropsOne ==
    LET n == Min(Len(chan), n_conns) IN
    /\ recv_buffer' = recv_buffer \o SubSeq(chan, 1, n)
    /\ chan' = SubSeq(chan, n + 2, Len(chan))

\* rx.recv_many(&mut recv_buffer, n_conns) on a non-empty channel: up to
\* n_conns messages move from the channel to the end of recv_buffer.
RecvMany ==
    LET n == Min(Len(chan), n_conns) IN
    /\ recv_buffer' = recv_buffer \o SubSeq(chan, 1, n)
    /\ chan' = SubSeq(chan, n + 1, Len(chan))

\* lines 381-392: rx.is_empty(), recv_many, or the back-off sleep.
Drain ==
    /\ pc = "drain"
    /\ IF chan # <<>>
       THEN /\ RecvMany
            /\ pc' = "reduce"
       ELSE /\ pc' = IF key_counter < keysLen THEN "sleep" ELSE "check"
            /\ UNCHANGED <<chan, recv_buffer>>
    /\ UNCHANGED <<config, sqlEngine, token, inner, result, max_conns, n_conns, acc, ld, conn,
                   workerVars, joined, txHeld, rxAlive, calls, hist>>

\* Mutant: the back-off sleep is followed by `continue`.
SleepContinues ==
    /\ pc = "sleep"
    /\ pc' = "loop_cond"
    /\ UNCHANGED <<config, sqlEngine, token, inner, result, orchLocals, conn, workerVars,
                   joined, chan, txHeld, rxAlive, calls, hist>>

\* line 391: tokio::time::sleep(duration).await
Sleep ==
    /\ pc = "sleep"
    /\ pc' = "check"
    /\ UNCHANGED <<config, sqlEngine, token, inner, result, orchLocals, conn, workerVars,
                   joined, chan, txHeld, rxAlive, calls, hist>>

RECURSIVE SumUpTo(_, _)
SumUpTo(f, n) == IF n < 0 THEN 0 ELSE f[n] + SumUpTo(f, n - 1)
TotalReduceCalls == SumUpTo(reduceCalls, MaxKeys - 1)

\* recv_buffer.pop().unwrap(): the last element
PopIndex(buf) == Len(buf)

\* One iteration of `for _ in 0..n`: pop and self.reduce(..)? returning Ok.
\* After the last iteration control moves to `after`.
ReduceOk(at, after) ==
    /\ pc = at
    /\ recv_buffer # <<>>
    /\ LET p == PopIndex(recv_buffer)
           k == recv_buffer[p]
           rest == [j \in 1..(Len(recv_buffer) - 1) |->
                      IF j < p THEN recv_buffer[j] ELSE recv_buffer[j + 1]]
       IN /\ reduceCalls' = [reduceCalls EXCEPT ![k] = @ + 1]
          /\ recv_buffer' = rest
          /\ acc' = ReduceF(acc, k, MapF(k))
          /\ pc' = IF rest = <<>> THEN after ELSE at
    /\ UNCHANGED <<config, sqlEngine, token, inner, result, max_conns, n_conns, ld, conn,
                   workerVars, joined, chan, txHeld, rxAlive, mapCalls,
                   sentCount, hist>>

\* Mutant: the error of reduce_f is recorded but the loop goes on.
ReduceErrSwallowed(at) ==
    /\ pc = at
    /\ Len(recv_buffer) > 1
    /\ LET k == recv_buffer[Len(recv_buffer)]
       IN /\ reduceCalls' = [reduceCalls EXCEPT ![k] = @ + 1]
          /\ recv_buffer' = SubSeq(recv_buffer, 1, Len(recv_buffer) - 1)
          /\ hist' = [hist EXCEPT !.errAt = "reduce", !.errCancelled = token,
                                  !.reduceErrKey = k,
                                  !.reducesAtErr = TotalReduceCalls + 1,
                                  !.errBatchLeft = Len(recv_buffer) - 1]
    /\ UNCHANGED <<config, sqlEngine, token, inner, pc, result, max_conns, n_conns, acc, ld,
                   conn, workerVars, joined, chan, txHeld, rxAlive, mapCalls,
                   sentCount>>

\* Mutant: the token is consulted before the error of reduce_f is returned.
ReduceErrAfterTokenCheck(at) ==
    /\ pc = at
    /\ recv_buffer # <<>>
    /\ LET k == recv_buffer[Len(recv_buffer)]
       IN /\ reduceCalls' = [reduceCalls EXCEPT ![k] = @ + 1]
          /\ hist' = [hist EXCEPT !.errAt = "reduce", !.errCancelled = token,
                                  !.reduceErrKey = k,
                                  !.reducesAtErr = TotalReduceCalls + 1,
                                  !.errBatchLeft = Len(recv_buffer) - 1]
    /\ Return(IF token THEN "Cancelled" ELSE "ReduceErr")
    /\ UNCHANGED <<config, sqlEngine, token, inner, max_conns, n_conns, acc, conn, workerVars,
                   joined, mapCalls, sentCount>>

\* One iteration of `for _ in 0..n` in which reduce_f returns Err: `?`
\* returns the error from do_run.
ReduceErr(at) ==
    /\ pc = at
    /\ recv_buffer # <<>>
    /\ LET k == recv_buffer[PopIndex(recv_buffer)]
       IN /\ reduceCalls' = [reduceCalls EXCEPT ![k] = @ + 1]
          /\ hist' = [hist EXCEPT !.errAt = "reduce", !.errCancelled = token,
                                  !.reduceErrKey = k,
                                  !.reducesAtErr = TotalReduceCalls + 1,
                                  !.errBatchLeft = Len(recv_buffer) - 1]
    /\ Return("ReduceErr")
    /\ UNCHANGED <<config, sqlEngine, token, inner, max_conns, n_conns, acc, conn, workerVars,
                   joined, mapCalls, sentCount>>

\* lines 384-387
LoopReduceOk == ReduceOk("reduce", "check")
LoopReduceErr == ReduceErr("reduce")

\* line 394
LoopCheck ==
    /\ pc = "check"
    /\ CheckCancellation("loop_cond")
    /\ UNCHANGED <<config, sqlEngine, token, inner, max_conns, n_conns, acc, conn, workerVars,
                   joined, calls>>

Spawned(w) == wpc[w] # "none"
Finished(w) == wpc[w] \in {"done_ok", "done_cancelled", "panicked"}

\* lines 399-401: workers.next() yields a worker that returned Ok(()).
JoinOk ==
    /\ pc = "join"
    /\ \E w \in ConnIds :
         /\ w \notin joined
         /\ wpc[w] = "done_ok"
         /\ joined' = joined \cup {w}
    /\ pc' = "join_check"
    /\ UNCHANGED <<config, sqlEngine, token, inner, result, orchLocals, conn, workerVars,
                   chan, txHeld, rxAlive, calls, hist>>

\* lines 402-404: a worker returned Err(CancelledError).
JoinCancelled ==
    /\ pc = "join"
    /\ \E w \in ConnIds :
         /\ w \notin joined
         /\ wpc[w] = "done_cancelled"
         /\ joined' = joined \cup {w}
    /\ Return("Cancelled")
    /\ hist' = [hist EXCEPT !.cancelFrom = pc]
    /\ UNCHANGED <<config, sqlEngine, token, inner, max_conns, n_conns, acc, conn,
                   workerVars, calls>>

\* lines 405-407 with 437-449: a worker task panicked; the panic is resumed.
JoinPanic ==
    /\ pc = "join"
    /\ \E w \in ConnIds :
         /\ w \notin joined
         /\ wpc[w] = "panicked"
         /\ joined' = joined \cup {w}
    /\ Return("Panic")
    /\ UNCHANGED <<config, sqlEngine, token, inner, max_conns, n_conns, acc, conn, workerVars,
                   calls, hist>>

\* Mutant: the join loop is left before workers.next() has yielded None.
JoinDoneEarly ==
    /\ pc = "join"
    /\ pc' = "final_recv"
    /\ UNCHANGED <<config, sqlEngine, token, inner, result, orchLocals, conn, workerVars,
                   joined, chan, txHeld, rxAlive, calls, hist>>

\* line 399: workers.next() yields None, every worker has been joined.
JoinDone ==
    /\ pc = "join"
    /\ \A w \in ConnIds : Spawned(w) => w \in joined
    /\ pc' = "final_recv"
    /\ UNCHANGED <<config, sqlEngine, token, inner, result, orchLocals, conn, workerVars,
                   joined, chan, txHeld, rxAlive, calls, hist>>

\* line 409
JoinCheck ==
    /\ pc = "join_check"
    /\ CheckCancellation("join")
    /\ UNCHANGED <<config, sqlEngine, token, inner, max_conns, n_conns, acc, conn, workerVars,
                   joined, calls>>

\* a clone of tx is alive: the orchestrator's, or a running worker's
SenderAlive == txHeld \/ \E w \in ConnIds : Spawned(w) /\ ~Finished(w)

\* line 413, n > 0
FinalRecv ==
    /\ pc = "final_recv"
    /\ chan # <<>>
    /\ RecvMany
    /\ pc' = "final_reduce"
    /\ UNCHANGED <<config, sqlEngine, token, inner, result, max_conns, n_conns, acc, ld, conn,
                   workerVars, joined, txHeld, rxAlive, calls, hist>>

\* Mutant: the final drain loop is left after the first batch.
ChannelDrainedAfterFirstBatch == TRUE

\* recv_many returns 0 only when no message is left in the channel
ChannelDrained == chan = <<>>

\* lines 413-416 and 424: the channel is closed and empty, n == 0, Ok(acc).
FinalRecvClosed ==
    /\ pc = "final_recv"
    /\ ChannelDrained
    /\ ~SenderAlive
    /\ Return("Ok")
    /\ UNCHANGED <<config, sqlEngine, token, inner, max_conns, n_conns, acc, conn, workerVars,
                   joined, calls, hist>>

\* lines 417-420
FinalReduceOk == ReduceOk("final_reduce", "final_check")
FinalReduceErr == ReduceErr("final_reduce")

\* line 421
FinalCheck ==
    /\ pc = "final_check"
    /\ CheckCancellation("final_recv")
    /\ UNCHANGED <<config, sqlEngine, token, inner, max_conns, n_conns, acc, conn, workerVars,
                   joined, calls>>

\* ------------------------------------------------------- MapReduce::worker
\* Mutant: the claim uses the value after the addition.
FetchAddResultNew(kc) == kc + 1

\* key_counter.fetch_add(1, SeqCst): the value returned, and the value stored
FetchAddResult(kc) == kc
\* Mutant: key_counter is read with load() instead of fetch_add(1).
LoadWithoutAdd(kc) == kc

FetchAddStore(kc) == kc + 1

\* Mutant: off by one in the end test.
PastEndOffByOne(i) == i > keysLen

\* line 277: i >= keys.len()
PastEnd(i) == i >= keysLen

\* lines 276-284: claim an index; past the end return Ok(()), otherwise
\* start the blocking task that calls inner.map(conn, &keys[i]).
WorkerClaim(w) ==
    /\ wpc[w] = "claim"
    /\ LET i == FetchAddResult(key_counter) IN
         /\ key_counter' = FetchAddStore(key_counter)
         /\ IF PastEnd(i)
            THEN /\ wpc' = [wpc EXCEPT ![w] = "done_ok"]
                 /\ UNCHANGED <<widx, mapCalls>>
            ELSE /\ wpc' = [wpc EXCEPT ![w] = "map"]
                 /\ widx' = [widx EXCEPT ![w] = i]
                 /\ mapCalls' = [mapCalls EXCEPT ![i] = @ + 1]
    /\ UNCHANGED <<config, sqlEngine, token, stats, pc, result, orchLocals, conn, wconn,
                   joined, chan, txHeld, rxAlive, sentCount, reduceCalls,
                   hist>>

\* MapReduceInner::map: map_f returned, task_count.fetch_add(1)
WorkerMapReturn(w) ==
    /\ wpc[w] = "map"
    /\ task_count' = task_count + 1
    /\ wpc' = [wpc EXCEPT ![w] = "timed"]
    /\ UNCHANGED <<config, sqlEngine, token, key_counter, total_task_time_us, connStats,
                   pc, result, orchLocals, conn, widx, wconn, joined, chan, txHeld,
                   rxAlive, calls, hist>>

\* MapReduceInner::map: total_task_time_us.fetch_add(elapsed); the blocking
\* task finishes and lines 287-295 take back (conn, value).
WorkerMapRecord(w) ==
    /\ wpc[w] = "timed"
    /\ \E e \in TaskTimes : total_task_time_us' = total_task_time_us + e
    /\ wpc' = [wpc EXCEPT ![w] = "send"]
    /\ UNCHANGED <<config, sqlEngine, token, key_counter, task_count, connStats, pc,
                   result, orchLocals, conn, widx, wconn, joined, chan, txHeld,
                   rxAlive, calls, hist>>

\* lines 289-292 with 437-445: map_f panicked; cancelled_from_join_error
\* resumes the panic in the worker task, which ends panicked.
WorkerMapPanic(w) ==
    /\ wpc[w] = "map"
    /\ wpc' = [wpc EXCEPT ![w] = "panicked"]
    /\ UNCHANGED <<config, sqlEngine, token, inner, pc, result, orchLocals, conn, widx, wconn,
                   joined, chan, txHeld, rxAlive, calls, hist>>

\* Mutant: the error of tx.send is ignored and the worker goes on.
WorkerSendIgnoresError(w) ==
    /\ wpc[w] = "send"
    /\ IF rxAlive
       THEN /\ chan' = Append(chan, widx[w])
            /\ sentCount' = [sentCount EXCEPT ![widx[w]] = @ + 1]
       ELSE UNCHANGED <<chan, sentCount>>
    /\ wpc' = [wpc EXCEPT ![w] = "check"]
    /\ UNCHANGED <<config, sqlEngine, token, inner, pc, result, orchLocals, conn, widx,
                   wconn, joined, txHeld, rxAlive, mapCalls, reduceCalls, hist>>

\* lines 297-305: tx.send((key, value)); it fails when rx has been dropped.
WorkerSend(w) ==
    /\ wpc[w] = "send"
    /\ IF rxAlive
       THEN /\ chan' = Append(chan, widx[w])
            /\ sentCount' = [sentCount EXCEPT ![widx[w]] = @ + 1]
            /\ wpc' = [wpc EXCEPT ![w] = "check"]
       ELSE /\ wpc' = [wpc EXCEPT ![w] = "done_cancelled"]
            /\ UNCHANGED <<chan, sentCount>>
    /\ UNCHANGED <<config, sqlEngine, token, inner, pc, result, orchLocals, conn, widx, wconn,
                   joined, txHeld, rxAlive, mapCalls, reduceCalls, hist>>

\* Mutant: the worker does not look at the token after a send.
WorkerCheckIgnoresToken(w) ==
    /\ wpc[w] = "check"
    /\ wpc' = [wpc EXCEPT ![w] = "claim"]
    /\ UNCHANGED <<config, sqlEngine, token, inner, pc, result, orchLocals, conn, widx,
                   wconn, joined, chan, txHeld, rxAlive, calls, hist>>

\* lines 307-309: token.is_cancelled()
WorkerCheck(w) ==
    /\ wpc[w] = "check"
    /\ wpc' = [wpc EXCEPT ![w] = IF token THEN "done_cancelled" ELSE "claim"]
    /\ UNCHANGED <<config, sqlEngine, token, inner, pc, result, orchLocals, conn, widx, wconn,
                   joined, chan, txHeld, rxAlive, calls, hist>>

\* --------------------------------------------------------- the environment
\* CancellationToken: the owner of the token source cancels it.
Cancel ==
    /\ ~token
    /\ token' = TRUE
    /\ hist' = [hist EXCEPT !.cancelUnclaimed =
                     pc \notin {"start", "done"} /\ key_counter < keysLen,
                             !.cancelBudget =
                     IF pc \notin {"start", "done"}
                     THEN max_conns - n_conns ELSE -1]
    /\ UNCHANGED <<config, sqlEngine, inner, pc, result, orchLocals, conn, workerVars,
                   joined, chan, txHeld, rxAlive, calls>>

Next ==
    \/ RunStart
    \/ StartConn
    \/ \E c \in ConnIds : ConnReturnOk(c)
    \/ \E c \in ConnIds : ConnRecordTime(c)
    \/ \E c \in ConnIds : ConnReturnErr(c)
    \/ \E c \in ConnIds : ConnPanic(c)
    \/ AwaitFirstOk
    \/ AwaitFirstErr
    \/ AwaitConnPanic
    \/ LoopCond
    \/ AwaitConnOk
    \/ AwaitConnErr
    \/ AwaitConnNone
    \/ GrowLoadKeys
    \/ GrowLoadTaskCount
    \/ GrowLoadTaskTime
    \/ GrowDecide
    \/ Drain
    \/ Sleep
    \/ LoopReduceOk
    \/ LoopReduceErr
    \/ LoopCheck
    \/ JoinOk
    \/ JoinCancelled
    \/ JoinPanic
    \/ JoinDone
    \/ JoinCheck
    \/ FinalRecv
    \/ FinalRecvClosed
    \/ FinalReduceOk
    \/ FinalReduceErr
    \/ FinalCheck
    \/ \E w \in ConnIds : WorkerClaim(w)
    \/ \E w \in ConnIds : WorkerMapReturn(w)
    \/ \E w \in ConnIds : WorkerMapRecord(w)
    \/ \E w \in ConnIds : WorkerMapPanic(w)
    \/ \E w \in ConnIds : WorkerSend(w)
    \/ \E w \in ConnIds : WorkerCheck(w)
    \/ Cancel

Spec == Init /\ [][Next]_vars

\* ---------------------------------------------------------------- fairness
\* The steps of do_run, which is one task: it is polled whenever it can
\* make progress.
OrchStep ==
    \/ RunStart
    \/ StartConn
    \/ AwaitFirstOk
    \/ AwaitFirstErr
    \/ AwaitConnPanic
    \/ LoopCond
    \/ AwaitConnOk
    \/ AwaitConnErr
    \/ AwaitConnNone
    \/ GrowLoadKeys
    \/ GrowLoadTaskCount
    \/ GrowLoadTaskTime
    \/ GrowDecide
    \/ Drain
    \/ Sleep
    \/ LoopReduceOk
    \/ LoopReduceErr
    \/ LoopCheck
    \/ JoinOk
    \/ JoinCancelled
    \/ JoinPanic
    \/ JoinDone
    \/ JoinCheck
    \/ FinalRecv
    \/ FinalRecvClosed
    \/ FinalReduceOk
    \/ FinalReduceErr
    \/ FinalCheck

\* The blocking factory call of attempt c returns, fails or panics.
ConnStep(c) ==
    \/ ConnReturnOk(c)
    \/ ConnRecordTime(c)
    \/ ConnReturnErr(c)
    \/ ConnPanic(c)

\* The steps of the worker task w and of its blocking map_f calls.
WorkerStep(w) ==
    \/ WorkerClaim(w)
    \/ WorkerMapReturn(w)
    \/ WorkerMapRecord(w)
    \/ WorkerMapPanic(w)
    \/ WorkerSend(w)
    \/ WorkerCheck(w)

\* The runtime polls every spawned task that can make progress and every
\* blocking call returns; the owner of the token need never cancel it.
Fairness ==
    /\ WF_vars(OrchStep)
    /\ \A c \in ConnIds : WF_vars(ConnStep(c))
    /\ \A w \in ConnIds : WF_vars(WorkerStep(w))

FairSpec == Init /\ [][Next]_vars /\ Fairness

\* The runs in which the token is never cancelled, reduce_f never fails and
\* neither the factory nor map_f panics; the factory may still return Err.
QuietNext ==
    \/ RunStart
    \/ StartConn
    \/ \E c \in ConnIds : ConnReturnOk(c)
    \/ \E c \in ConnIds : ConnRecordTime(c)
    \/ \E c \in ConnIds : ConnReturnErr(c)
    \/ AwaitFirstOk
    \/ AwaitFirstErr
    \/ LoopCond
    \/ AwaitConnOk
    \/ AwaitConnErr
    \/ AwaitConnNone
    \/ GrowLoadKeys
    \/ GrowLoadTaskCount
    \/ GrowLoadTaskTime
    \/ GrowDecide
    \/ Drain
    \/ Sleep
    \/ LoopReduceOk
    \/ LoopCheck
    \/ JoinOk
    \/ JoinDone
    \/ JoinCheck
    \/ FinalRecv
    \/ FinalRecvClosed
    \/ FinalReduceOk
    \/ FinalCheck
    \/ \E w \in ConnIds : WorkerClaim(w)
    \/ \E w \in ConnIds : WorkerMapReturn(w)
    \/ \E w \in ConnIds : WorkerMapRecord(w)
    \/ \E w \in ConnIds : WorkerSend(w)
    \/ \E w \in ConnIds : WorkerCheck(w)

QuietFairSpec == Init /\ [][QuietNext]_vars /\ Fairness

\* ------------------------------------------- execute_query_with_retry
\* The errors execute_with_options can return; a cancellation is one of them.
Errors == {"Cancelled", "Adbc", "Internal"}

\* No MapReduce run is made.
MapReduceIdle ==
    /\ MapReduceInit
    /\ keysLen = 0
    /\ new_max_connections = 0

\* Lines 669-670: a call with any retry_limit.
RetryInit ==
    /\ MapReduceIdle
    /\ DatabasesIdle
    /\ retry_limit \in 0..MaxRetryLimit
    /\ attempt = 0
    /\ last_error = "None"
    /\ rpc = "while"
    /\ rret = "none"
    /\ execLog = <<>>

\* Lines 672-674: the loop condition holds and the attempt succeeds.
ExecuteOk ==
    /\ rpc = "while"
    /\ attempt < retry_limit
    /\ execLog' = Append(execLog, "Ok")
    /\ rret' = "Ok"
    /\ rpc' = "returned"
    /\ UNCHANGED <<mapReduce, databases, retry_limit, attempt, last_error>>

\* Lines 672-679: the loop condition holds and the attempt fails with e; the
\* error is kept, the thread sleeps for a second, the attempt is counted.
ExecuteErr(e) ==
    /\ rpc = "while"
    /\ attempt < retry_limit
    /\ execLog' = Append(execLog, e)
    /\ last_error' = e
    /\ attempt' = attempt + 1
    /\ UNCHANGED <<mapReduce, databases, retry_limit, rpc, rret>>

\* Lines 672, 683-687: the loop condition fails.
RetryExhausted ==
    /\ rpc = "while"
    /\ ~(attempt < retry_limit)
    /\ rret' = IF last_error # "None" THEN last_error ELSE "unreachable"
    /\ rpc' = "returned"
    /\ UNCHANGED <<mapReduce, databases, retry_limit, attempt, last_error,
                   execLog>>

RetryNext ==
    \/ ExecuteOk
    \/ \E e \in Errors : ExecuteErr(e)
    \/ RetryExhausted

RetrySpec == RetryInit /\ [][RetryNext]_vars

\* ------------------- ActualEngine::load_driver_and_configure_database
\* Every thread calls the function once, on the same engine.
DatabasesInit ==
    /\ MapReduceIdle
    /\ RetryIdle
    /\ configured_databases = [f \in Fingerprints |-> 0]
    /\ readers = {}
    /\ writer = 0
    /\ dpc = [t \in Threads |-> "configure"]
    /\ fingerprint = [t \in Threads |-> 0]
    /\ dret = [t \in Threads |-> <<"none">>]
    /\ created = [f \in Fingerprints |-> 0]
    /\ createFailed = [f \in Fingerprints |-> 0]

\* The call of thread t returns r; no guard is held any more.
DbReturn(t, r) ==
    /\ dret' = [dret EXCEPT ![t] = r]
    /\ dpc' = [dpc EXCEPT ![t] = "done"]

\* Line 195: self.auth.configure(config)? fails.
ConfigureErr(t) ==
    /\ dpc[t] = "configure"
    /\ DbReturn(t, <<"Err">>)
    /\ UNCHANGED <<mapReduce, retry, configured_databases, readers, writer,
                   fingerprint, created, createFailed>>

\* Line 195: the builder is configured.
ConfigureOk(t) ==
    /\ dpc[t] = "configure"
    /\ dpc' = [dpc EXCEPT ![t] = "try_load"]
    /\ UNCHANGED <<mapReduce, retry, configured_databases, readers, writer,
                   fingerprint, dret, created, createFailed>>

\* Lines 198-200: try_load()? fails.
TryLoadErr(t) ==
    /\ dpc[t] = "try_load"
    /\ DbReturn(t, <<"Err">>)
    /\ UNCHANGED <<mapReduce, retry, configured_databases, readers, writer,
                   fingerprint, created, createFailed>>

\* Lines 198-211: the driver is loaded and the fingerprint of the options
\* is computed; f is the fingerprint of this caller's configuration.
TryLoadOk(t, f) ==
    /\ dpc[t] = "try_load"
    /\ fingerprint' = [fingerprint EXCEPT ![t] = f]
    /\ dpc' = [dpc EXCEPT ![t] = "read"]
    /\ UNCHANGED <<mapReduce, retry, configured_databases, readers, writer,
                   dret, created, createFailed>>

\* Line 213: configured_databases.read(): no writer holds the lock.
ReadLock(t) ==
    /\ dpc[t] = "read"
    /\ writer = 0
    /\ readers' = readers \cup {t}
    /\ dpc' = [dpc EXCEPT ![t] = "read_get"]
    /\ UNCHANGED <<mapReduce, retry, configured_databases, writer,
                   fingerprint, dret, created, createFailed>>

\* Lines 214-216: the map has an entry; a clone of it is returned and the
\* read guard is dropped.
ReadHit(t) ==
    /\ dpc[t] = "read_get"
    /\ configured_databases[fingerprint[t]] # 0
    /\ DbReturn(t, <<"Ok", configured_databases[fingerprint[t]]>>)
    /\ readers' = readers \ {t}
    /\ UNCHANGED <<mapReduce, retry, configured_databases, writer,
                   fingerprint, created, createFailed>>

\* Lines 214-217: no entry; the read guard is dropped at the end of the block.
ReadMiss(t) ==
    /\ dpc[t] = "read_get"
    /\ configured_databases[fingerprint[t]] = 0
    /\ readers' = readers \ {t}
    /\ dpc' = [dpc EXCEPT ![t] = "write"]
    /\ UNCHANGED <<mapReduce, retry, configured_databases, writer,
                   fingerprint, dret, created, createFailed>>

\* Line 219: configured_databases.write(): nobody holds the lock.
WriteLock(t) ==
    /\ dpc[t] = "write"
    /\ writer = 0
    /\ readers = {}
    /\ writer' = t
    /\ dpc' = [dpc EXCEPT ![t] = "write_get"]
    /\ UNCHANGED <<mapReduce, retry, configured_databases, readers,
                   fingerprint, dret, created, createFailed>>

\* Mutant: the map is not looked at again under the write guard.
WriteLookupMisses(f) == 0

\* Line 220: write_guard.inner.get(&fingerprint).
WriteLookup(f) == configured_databases[f]

\* Lines 220-222: another thread has inserted the entry in the meantime.
WriteHit(t) ==
    /\ dpc[t] = "write_get"
    /\ WriteLookup(fingerprint[t]) # 0
    /\ DbReturn(t, <<"Ok", configured_databases[fingerprint[t]]>>)
    /\ writer' = 0
    /\ UNCHANGED <<mapReduce, retry, configured_databases, readers,
                   fingerprint, created, createFailed>>

\* Line 224: new_database_with_opts(opts)? fails; the write guard is dropped.
CreateErr(t) ==
    /\ dpc[t] = "write_get"
    /\ WriteLookup(fingerprint[t]) = 0
    /\ DbReturn(t, <<"Err">>)
    /\ writer' = 0
    /\ createFailed' = [createFailed EXCEPT ![fingerprint[t]] = @ + 1]
    /\ UNCHANGED <<mapReduce, retry, configured_databases, readers,
                   fingerprint, created>>

\* the databases created so far; every new one is a different object
RECURSIVE CreatedUpTo(_)
CreatedUpTo(n) == IF n = 0 THEN 0 ELSE created[n] + CreatedUpTo(n - 1)
CreatedTotal == CreatedUpTo(MaxFingerprints)

\* Lines 224-226: the database is created and inserted under the write guard.
CreateOk(t) ==
    /\ dpc[t] = "write_get"
    /\ WriteLookup(fingerprint[t]) = 0
    /\ configured_databases' =
           [configured_databases EXCEPT ![fingerprint[t]] = CreatedTotal + 1]
    /\ created' = [created EXCEPT ![fingerprint[t]] = @ + 1]
    /\ DbReturn(t, <<"Ok", CreatedTotal + 1>>)
    /\ writer' = 0
    /\ UNCHANGED <<mapReduce, retry, readers, fingerprint, createFailed>>

DatabasesNext ==
    \E t \in Threads :
        \/ ConfigureErr(t)
        \/ ConfigureOk(t)
        \/ TryLoadErr(t)
        \/ \E f \in Fingerprints : TryLoadOk(t, f)
        \/ ReadLock(t)
        \/ ReadHit(t)
        \/ ReadMiss(t)
        \/ WriteLock(t)
        \/ WriteHit(t)
        \/ CreateErr(t)
        \/ CreateOk(t)

DatabasesSpec == DatabasesInit /\ [][DatabasesNext]_vars

\* ================================================================ claims
Keys == 0..(keysLen - 1)
InFlightCount == Cardinality({c \in ConnIds : InFlight(c)})
StartedCount == Cardinality({c \in ConnIds : Started(c)})
SpawnedCount == Cardinality({w \in ConnIds : Spawned(w)})
HoldsKey(w) == wpc[w] \in {"map", "timed", "send", "check"}

\* C1: reduce_f is never invoked more than once for the same key index, and
\* when run has returned Ok it has been invoked exactly once for every index
\* of the key sequence.
C1_ReduceExactlyOnce ==
    /\ \A k \in KeyIdx : reduceCalls[k] <= 1
    /\ result = "Ok" => \A k \in Keys : reduceCalls[k] = 1

\* A three-key run that opened a third connection, absorbed a failed
\* attempt and returned Ok.
C1_Witness ==
    /\ result = "Ok"
    /\ keysLen = 3
    /\ n_conns = 3
    /\ \E c \in ConnIds : conn[c] = "absorbed"

\* C2: every key index is claimed by at most one worker: map_f is invoked at
\* most once per index, at most one message per index is sent, and no two
\* workers hold the same index at the same time.
C2_ClaimedByOneWorker ==
    \A k \in KeyIdx :
        /\ mapCalls[k] <= 1
        /\ sentCount[k] <= 1
        /\ Cardinality({w \in ConnIds : HoldsKey(w) /\ widx[w] = k}) <= 1

\* Two workers are inside map_f at the same time, on different keys, while
\* a third worker has already sent the result of another key.
C2_Witness ==
    /\ Cardinality({w \in ConnIds : wpc[w] = "map"}) = 2
    /\ SpawnedCount = 3
    /\ key_counter = 3
    /\ \A k \in Keys : mapCalls[k] = 1

\* C3: with an empty key sequence run does nothing but return Ok: no
\* connection attempt exists, no worker is spawned, map_f and reduce_f are
\* not invoked, whatever the state of the token.
C3_EmptyKeys ==
    keysLen = 0 =>
        /\ pc \in {"start", "done"}
        /\ pc = "done" => result = "Ok"
        /\ \A c \in ConnIds : conn[c] = "none" /\ wpc[c] = "none"
        /\ key_counter = 0

\* run with no keys returned Ok although the token was already cancelled.
C3_Witness == keysLen = 0 /\ result = "Ok" /\ token

\* C4: the number of connection-factory calls in flight never exceeds
\* max(C, 2) for the constructor argument C.
C4_InFlightBound == InFlightCount <= Max(new_max_connections, 2)

\* Two factory calls are in flight at once with C = 0.
C4_Witness == InFlightCount = 2 /\ new_max_connections = 0

\* C5: the connection-factory calls started, the workers spawned and n_conns
\* never exceed min(keys.len(), max(max_connections, 2)).
C5_ConnBudget ==
    LET budget == Min(keysLen, Max(new_max_connections, 2)) IN
    /\ StartedCount <= budget
    /\ SpawnedCount <= budget
    /\ n_conns <= budget

\* The whole budget of three is used: three calls started, one of them
\* failed, so only two workers were spawned.
C5_Witness ==
    /\ StartedCount = 3
    /\ SpawnedCount = 2
    /\ \E c \in ConnIds : conn[c] = "absorbed"
    /\ pc = "drain"

ConnFailed(c) == conn[c] \in {"err", "fatal", "absorbed"}
ConnSucceeded(c) == conn[c] \in {"counted", "ok", "spawned"}
PanicSeen ==
    \/ \E w \in ConnIds : wpc[w] = "panicked"
    \/ \E c \in ConnIds : conn[c] \in {"panicked", "unwound"}
NoCalls == \A k \in KeyIdx : mapCalls[k] = 0 /\ reduceCalls[k] = 0

\* C6, as stated: when the connection-factory call started first (attempt 1)
\* has failed and nothing panicked, no worker is ever spawned, map_f and reduce_f are not invoked,
\* and run, once returned, has returned the connection error.
C6_FirstStartedFailureFatal ==
    (ConnFailed(1) /\ ~PanicSeen) =>
        /\ SpawnedCount = 0
        /\ NoCalls
        /\ pc = "done" => result = "ConnErr"

\* C6, amended: when the first result yielded by the connection futures
\* (the first attempt to complete, whichever was started first) is a
\* failure, run returns the connection error, no worker is ever spawned and
\* map_f and reduce_f are not invoked.
C6_FirstObtainedFailureFatal ==
    (\E c \in ConnIds : conn[c] = "fatal") =>
        /\ result = "ConnErr"
        /\ SpawnedCount = 0
        /\ NoCalls
        /\ key_counter = 0

\* The factory fails on every call: both initial attempts failed, the first
\* one obtained ended the run.
C6_Witness ==
    /\ keysLen = 3
    /\ \E c \in 1..2 : conn[c] = "fatal"
    /\ \E c \in 1..2 : conn[c] = "err"

\* C7: when the connection-factory call started first (attempt 1) succeeds,
\* run never returns a connection error.
C7_LaterFailuresAbsorbed ==
    ConnSucceeded(1) => result # "ConnErr"

\* C8: once an invocation of reduce_f has returned an error, run has
\* returned exactly that error and reduce_f is not invoked again.
C8_ReduceErrorFatal ==
    hist.errAt = "reduce" =>
        /\ pc = "done"
        /\ result = "ReduceErr"
        /\ TotalReduceCalls = hist.reducesAtErr

\* reduce_f failed on the first result of a batch of two, and a worker that
\* was still mapping the third key has since found the receiver dropped.
C8_Witness ==
    /\ hist.errAt = "reduce"
    /\ hist.reducesAtErr = 1
    /\ hist.errBatchLeft = 1
    /\ ~token
    /\ \E w \in ConnIds : wpc[w] = "done_cancelled"

\* C9, as stated: an ordinary error met by the orchestrator while the token
\* is already cancelled makes run return the cancellation error.
C9_CancellationPriority ==
    (hist.errAt # "none" /\ hist.errCancelled) => result = "Cancelled"

\* C9, amended: an ordinary error met by the orchestrator (a reduce_f error
\* in a drain step, or the failure of the first connection obtained) is
\* returned as it is even when the token is already cancelled; the
\* cancellation error is returned only from a cancellation check that is
\* reached without an error before it.
C9_ErrorBeforeCancellation ==
    (hist.errAt # "none" /\ hist.errCancelled) =>
        result = (IF hist.errAt = "reduce" THEN "ReduceErr" ELSE "ConnErr")

\* reduce_f failed after the token had been cancelled.
C9_Witness ==
    /\ hist.errAt = "reduce"
    /\ hist.errCancelled
    /\ result = "ReduceErr"

RunStep ==
    \/ OrchStep
    \/ \E c \in ConnIds : ConnStep(c)
    \/ \E w \in ConnIds : WorkerStep(w)

\* the token was cancelled while do_run was running
CancelledMidRun == token /\ hist.cancelBudget >= 0

\* A variant for the cancelled run: an upper bound on the number of steps
\* that the worker w, the attempt c (and the worker it may still get) and
\* the orchestrator can take before do_run returns.
C11_WorkerRank(w) ==
    CASE wpc[w] = "claim" -> 6
      [] wpc[w] = "map" -> 5
      [] wpc[w] = "timed" -> 4
      [] wpc[w] = "send" -> 3
      [] wpc[w] = "check" -> 1
      [] OTHER -> 0
C11_ConnRank(c) ==
    CASE conn[c] = "pushed" -> 9
      [] conn[c] = "running" -> 8
      [] conn[c] = "counted" -> 7
      [] conn[c] = "ok" -> 6
      [] OTHER -> 0
C11_OrchRank ==
    CASE pc = "start" -> 11
      [] pc = "await_first" -> 10
      [] pc = "loop_cond" -> 9
      [] pc = "await_conn" -> 8
      [] pc = "grow" -> 7
      [] pc = "grow_tc" -> 6
      [] pc = "grow_tt" -> 5
      [] pc = "grow_cc" -> 4
      [] pc = "drain" -> 3
      [] pc = "sleep" -> 2
      [] pc = "join" -> 4
      [] pc = "final_recv" -> 3
      [] pc = "done" -> 0
      [] OTHER -> 1
RECURSIVE C11_Sum(_, _)
C11_Sum(f, n) == IF n = 0 THEN 0 ELSE f[n] + C11_Sum(f, n - 1)
C11_Rank ==
    C11_OrchRank + 24 * (max_conns - n_conns) + Len(chan) + Len(recv_buffer)
    + C11_Sum([c \in ConnIds |-> C11_ConnRank(c) + C11_WorkerRank(c)],
              MaxKeys + 1)

\* C11: after the token is cancelled in the middle of a run, run returns
\* after finitely many steps: the orchestrator begins at most (connection
\* budget left at the cancellation) + 1 further loop iterations, as long as
\* run has not returned some task or blocking call can take a step (nothing
\* waits for an event that cannot happen), and every step strictly decreases
\* a natural-valued variant, so no loop or wait goes on indefinitely.
C11_CancelledRunReturns ==
    /\ [](CancelledMidRun =>
            hist.itersAfterCancel <= hist.cancelBudget + 1)
    /\ [](CancelledMidRun /\ pc # "done" => C11_Rank >= 0 /\ ENABLED RunStep)
    /\ [][CancelledMidRun /\ pc # "done" => C11_Rank' < C11_Rank]_vars

\* Cancelled with one connection of the budget left: the iteration begun
\* after the cancellation opened the third connection and continued, the
\* next one reached the cancellation check, which returned.
C11_Witness ==
    /\ result = "Cancelled"
    /\ hist.cancelFrom = "check"
    /\ hist.cancelBudget = 1
    /\ hist.itersAfterCancel = 2
    /\ n_conns = 3

\* C12 (as stated): whenever run has returned the cancellation error, every
\* spawned worker has terminated.
C12_AllWorkersTerminatedWhenCancelled ==
    result = "Cancelled" => \A w \in ConnIds : Spawned(w) => Finished(w)

\* C12 (amended): when run returns the cancellation error, the workers
\* already yielded by workers.next() have terminated, and these are the
\* only ones run waited for: a return from the check of the main loop has
\* joined no worker, and only a return from the check after the final drain
\* has joined every spawned worker.
C12_JoinedWhenCancelled ==
    result = "Cancelled" =>
        /\ \A w \in joined : Finished(w)
        /\ hist.cancelFrom = "check" => joined = {}
        /\ hist.cancelFrom = "final_check" =>
               \A w \in ConnIds : Spawned(w) => w \in joined /\ Finished(w)

\* run has just returned the cancellation error from the check of the main
\* loop while a worker is inside map_f and no worker has been joined.
C12_Witness ==
    /\ result = "Cancelled"
    /\ hist.cancelFrom = "check"
    /\ joined = {}
    /\ \E w \in ConnIds : wpc[w] = "map"

\* C13: if map_f panics inside a worker's blocking task, run eventually
\* terminates (by re-raising the panic): it does not go on forever, also
\* when every spawned worker has died while unclaimed keys remain.
C13_PanicEndsRun ==
    (\E w \in ConnIds : wpc[w] = "panicked") ~> (pc = "done")

\* the workers whose blocking task is inside inner.map on the connection
\* produced by attempt c
MapsInProgressOn(c) ==
    {w \in ConnIds : wpc[w] \in {"map", "timed"} /\ wconn[w] = c}

\* C14: every worker holds the connection of one successful attempt, no two
\* workers hold the same connection, at no time two map_f invocations are in
\* progress on the same connection, and the connection of a worker never
\* changes: it is reused for every key and never handed to another worker.
C14_ConnectionOwnedByOneWorker ==
    /\ [](\A c \in ConnIds : Cardinality(MapsInProgressOn(c)) <= 1)
    /\ [](\A w \in ConnIds : Spawned(w) =>
             /\ wconn[w] \in ConnIds
             /\ conn[wconn[w]] = "spawned"
             /\ \A v \in ConnIds : Spawned(v) /\ v # w => wconn[v] # wconn[w])
    /\ [][\A w \in ConnIds : Spawned(w) => wconn'[w] = wconn[w]]_vars

\* Two workers are inside map_f at the same time, and one of them is
\* processing its second key on its connection.
C14_Witness ==
    /\ keysLen = 3
    /\ SpawnedCount = 2
    /\ Cardinality({w \in ConnIds : wpc[w] = "map"}) = 2
    /\ \A k \in Keys : mapCalls[k] = 1

\* the accumulator obtained by reducing the values of the first n keys one
\* after the other in index order
RECURSIVE FoldInOrder(_)
FoldInOrder(n) ==
    IF n = 0 THEN AccDefault
    ELSE ReduceF(FoldInOrder(n - 1), n - 1, MapF(n - 1))

\* C15: with a commutative and associative reduce_f (a sum) and a
\* deterministic map_f, the accumulator of a run that returned Ok is the one
\* the sequential fold over the keys gives, whatever the interleaving, the
\* completion order and the number of connections were.
C15_AccIndependentOfOrder ==
    result = "Ok" => acc = FoldInOrder(keysLen)

\* A run over three keys returned Ok after three workers had run
\* concurrently on three connections.
C15_Witness ==
    /\ result = "Ok"
    /\ keysLen = 3
    /\ SpawnedCount = 3
    /\ acc = MapF(0) + MapF(1) + MapF(2)

\* the first connection result the orchestrator obtained was a connection,
\* and the first worker was spawned on it
FirstObtainedOk ==
    hist.firstTaken # 0 /\ conn[hist.firstTaken] = "spawned"

\* C16: if the first connection obtained succeeds, the token is never
\* cancelled, reduce_f never fails, nothing panics and every call returns,
\* then run eventually returns Ok, whatever the other connection attempts
\* do.
C16_RunCompletes ==
    FirstObtainedOk ~> (result = "Ok")

\* Three keys were processed by the one worker of the first connection
\* obtained: the other initial attempt and the attempt opened by the growth
\* heuristic both failed and were absorbed, and run returned Ok.
C16_Witness ==
    /\ result = "Ok"
    /\ keysLen = 3
    /\ n_conns = 3
    /\ SpawnedCount = 1
    /\ Cardinality({c \in ConnIds : conn[c] = "absorbed"}) = 2

\* the key indices for which a claim has yielded work
ClaimedIndices == {k \in KeyIdx : mapCalls[k] >= 1}

\* C17: key_counter never decreases, the n-th claim that yields work
\* receives index n - 1, and at every moment the claimed key indices are
\* exactly 0 .. min(key_counter, keys.len()) - 1.
C17_ClaimsInIndexOrder ==
    /\ [](ClaimedIndices = 0..(Min(key_counter, keysLen) - 1))
    /\ [][/\ key_counter' >= key_counter
          /\ \A w \in ConnIds :
                wpc[w] = "claim" /\ wpc'[w] = "map" =>
                    /\ widx'[w] = Cardinality(ClaimedIndices)
                    /\ ClaimedIndices' = ClaimedIndices \cup {widx'[w]}]_vars

\* All three keys are claimed and two workers have since claimed past the
\* end: key_counter exceeds keys.len().
C17_Witness ==
    /\ keysLen = 3
    /\ key_counter = 5
    /\ ClaimedIndices = Keys

\* the positions of do_run in the join loop, and in the final drain
InJoinLoop == pc \in {"join", "join_check"}
InFinalDrain == pc \in {"final_recv", "final_reduce", "final_check"}
AllWorkersJoined ==
    \A w \in ConnIds : Spawned(w) => w \in joined /\ Finished(w)

\* C18: the main loop is left only when every key is claimed and then tx is
\* dropped; while the workers are joined reduce_f is not invoked and nothing
\* is received; the final drain starts only when every spawned worker has
\* been joined; and run returns Ok only when all workers have terminated and
\* every message sent has been reduced.
C18_JoinThenDrain ==
    /\ [](InJoinLoop \/ InFinalDrain =>
             ~txHeld /\ key_counter >= keysLen)
    /\ [](InJoinLoop => recv_buffer = <<>>)
    /\ [](InFinalDrain => AllWorkersJoined)
    /\ [](result = "Ok" /\ keysLen > 0 =>
             /\ AllWorkersJoined
             /\ \A k \in KeyIdx : reduceCalls[k] = sentCount[k])
    /\ [][InJoinLoop =>
             /\ reduceCalls' = reduceCalls
             /\ acc' = acc
             /\ Len(chan') >= Len(chan) \/ pc' = "done"]_vars

\* Two workers have been joined and the final drain has just received the
\* two messages they had sent after the last drain of the main loop.
C18_Witness ==
    /\ pc = "final_reduce"
    /\ Len(recv_buffer) = 2
    /\ Cardinality(joined) = 2
    /\ SpawnedCount = 2

\* a step of do_run that pushes the future of a connection attempt other
\* than the initial ones
GrowthPush ==
    pc # "start" /\ \E c \in ConnIds : conn[c] = "none" /\ conn'[c] = "pushed"

\* C19 (as stated): an attempt after the initial ones is opened in a state
\* in which n_conns < max_connections and
\* (remaining_keys * avg_task_time_us) / n_conns > 1.5 * avg_conn_time_us
\* hold for the current values of key_counter and of the statistics.
C19_GrowthWhenHeuristicHolds ==
    [][GrowthPush =>
         /\ n_conns < max_connections
         /\ RemainingKeys(key_counter) * total_task_time_us
               * Max(conn_count, 1) * 2
            > 3 * total_conn_time_us * n_conns * Max(task_count, 1)]_vars

\* C19 (amended): an attempt after the initial ones is opened only when
\* n_conns < min(keys.len(), max_connections) and the inequality holds for
\* the values the orchestrator loaded one after the other (key_counter, then
\* task_count, then total_task_time_us, then the connection statistics);
\* the loaded values may be stale: fewer keys may remain and more tasks may
\* have completed by the time the attempt is opened.
C19_GrowthWhenLoadedHeuristicHolds ==
    [][GrowthPush =>
         /\ n_conns < Min(keysLen, max_connections)
         /\ ld.rem * ld.tt * Max(conn_count, 1) * 2
            > 3 * total_conn_time_us * n_conns * Max(ld.tc, 1)
         /\ ld.rem >= RemainingKeys(key_counter)
         /\ ld.tc <= task_count
         /\ ld.tt <= total_task_time_us]_vars

\* The third attempt has just been pushed although, by now, every key is
\* claimed: the remaining-keys value was loaded before the last claim.
C19_Witness ==
    /\ conn[3] = "pushed"
    /\ n_conns = 3
    /\ pc = "loop_cond"
    /\ key_counter >= keysLen

\* C20: as long as no map_f invocation has completed (task_count = 0), no
\* connection attempt beyond the initial one or two exists: n_conns is
\* still its initial value and no further future has been pushed.
C20_InertWithoutSamples ==
    task_count = 0 =>
        /\ n_conns <= InitialConns(max_conns)
        /\ \A c \in ConnIds : c > 2 => conn[c] = "none"

\* With three keys, a budget of three and both initial connections made,
\* the heuristic has just been evaluated while a worker is inside the first
\* map_f call, and it declined to grow.
C20_Witness ==
    /\ task_count = 0
    /\ pc = "drain"
    /\ n_conns = 2
    /\ max_conns = 3
    /\ conn_count = 2
    /\ \E w \in ConnIds : wpc[w] = "map"

\* the connection futures created so far (pushed to conn_futures)
CreatedCount == Cardinality({c \in ConnIds : conn[c] # "none"})

\* the step of do_run that spawns the first worker
FirstSpawn == pc = "await_first" /\ pc' = "loop_cond"

\* C21 (as stated): when the first worker is spawned, one factory call has
\* been started if there is one key and two if there are more.
C21_StartedBeforeFirstWorker ==
    [][FirstSpawn => StartedCount = IF keysLen = 1 THEN 1 ELSE 2]_vars

\* C21 (amended): before the first worker is spawned one connection future
\* has been created if there is one key and two if there are more, whatever
\* the constructor argument; of these at least one and at most all have been
\* started when the first worker is spawned; with one key no further future
\* is ever created.
C21_CreatedBeforeFirstWorker ==
    /\ [](pc = "await_first" =>
             CreatedCount = (IF keysLen = 1 THEN 1 ELSE 2))
    /\ [](keysLen = 1 => CreatedCount <= 1 /\ StartedCount <= 1)
    /\ [][FirstSpawn =>
             /\ CreatedCount = (IF keysLen = 1 THEN 1 ELSE 2)
             /\ StartedCount \in 1..CreatedCount]_vars

\* The constructor was given max_connections = 1 and there are three keys:
\* the first worker has been spawned on the first connection while the
\* future of the second attempt has not been polled yet.
C21_Witness ==
    /\ new_max_connections = 1
    /\ keysLen = 3
    /\ pc = "loop_cond"
    /\ SpawnedCount = 1
    /\ conn[2] = "pushed"

C23_WorkerRank(w) ==
    CASE wpc[w] = "check" -> 5
      [] wpc[w] = "claim" -> 4
      [] wpc[w] = "map" -> 3
      [] wpc[w] = "timed" -> 2
      [] wpc[w] = "send" -> 1
      [] OTHER -> 0
C23_Rank == C11_Sum([w \in ConnIds |-> C23_WorkerRank(w)], MaxKeys + 1)

\* C23: after run has returned and dropped the receiver, the send of every
\* worker fails and ends the worker with the cancellation error, no worker
\* reaches its check point again or leaves its final state, so a worker
\* runs at most the map_f call it claims next; every worker that has not
\* terminated can take a step and every worker step decreases a variant, so
\* all workers terminate, whether or not the token is ever cancelled.
C23_WorkersEndAfterReturn ==
    /\ [][~rxAlive =>
            /\ sentCount' = sentCount
            /\ \A w \in ConnIds :
                 /\ wpc[w] = "send" /\ wpc'[w] # "send" =>
                       wpc'[w] = "done_cancelled"
                 /\ wpc'[w] = "check" => wpc[w] = "check"
                 /\ Finished(w) => wpc'[w] = wpc[w]
            /\ wpc' # wpc => C23_Rank' < C23_Rank]_vars
    /\ [](pc = "done" <=> ~rxAlive)
    /\ [](~rxAlive =>
            \A w \in ConnIds :
               Spawned(w) /\ ~Finished(w) => ENABLED WorkerStep(w))

\* reduce_f failed and run returned its error; the token was never
\* cancelled, and every worker has terminated, two of them with the
\* cancellation error of a failed send.
C23_Witness ==
    /\ result = "ReduceErr"
    /\ ~token
    /\ \A w \in ConnIds : Spawned(w) => Finished(w)
    /\ Cardinality({w \in ConnIds : wpc[w] = "done_cancelled"}) = 2

\* do_run is inside the body of the main loop
InLoopBody ==
    pc \in {"await_conn", "grow", "grow_tc", "grow_tt", "grow_cc", "drain",
            "reduce", "sleep", "check"}

\* an iteration of the main loop ends and control is back at its condition
IterationEnds == InLoopBody /\ pc' = "loop_cond"

\* C24: no iteration of the main loop ends with the token cancelled and
\* do_run going on to the next iteration: the token is looked at at the end
\* of every iteration and a cancelled token makes do_run return.
C24_CheckedEveryIteration ==
    [][IterationEnds => ~token]_vars

\* the attempts whose factory call returned Ok, and those whose elapsed
\* time has been recorded as well
ConnCalledOk == {c \in ConnIds : conn[c] \in {"counted", "ok", "spawned"}}
ConnTimed == {c \in ConnIds : conn[c] \in {"ok", "spawned"}}

\* C25: conn_count is the number of factory calls that returned Ok, a call
\* that fails or panics changes neither connection statistic, the total
\* connection time covers the successful calls only, task_count never
\* exceeds the number of claimed key indices, and no counter ever decreases.
C25_StatisticsOnlyGrow ==
    /\ [](conn_count = Cardinality(ConnCalledOk))
    /\ [](total_conn_time_us >= 0 /\ total_task_time_us >= 0)
    /\ [](ConnTimed = {} => total_conn_time_us = 0)
    /\ [](task_count <= Cardinality(ClaimedIndices))
    /\ [][/\ conn_count' >= conn_count
          /\ total_conn_time_us' >= total_conn_time_us
          /\ task_count' >= task_count
          /\ total_task_time_us' >= total_task_time_us
          /\ key_counter' >= key_counter
          /\ \A c \in ConnIds :
                conn[c] = "running" /\ conn'[c] \in {"err", "panicked"} =>
                    UNCHANGED connStats]_vars

\* Three attempts were made, one of them failed; both successful calls and
\* all three tasks are in the statistics.
C25_Witness ==
    /\ \E c \in ConnIds : conn[c] \in {"err", "absorbed"}
    /\ conn_count = 2
    /\ total_conn_time_us > 0
    /\ task_count = 3
    /\ n_conns = 3

\* the execute_with_options calls made so far that failed
FailedAttempts == {i \in 1..Len(execLog) : execLog[i] # "Ok"}

\* C26: execute_with_options is called at most retry_limit times, an Ok
\* result is returned at once, no error (a cancellation included) ends the
\* retries before the limit, after retry_limit failures the error of the
\* last attempt is returned, and the "unreachable" branch is never reached.
C26_RetryContract ==
    /\ Len(execLog) <= retry_limit
    /\ \A i \in 1..Len(execLog) :
          execLog[i] = "Ok" =>
              i = Len(execLog) /\ rpc = "returned" /\ rret = "Ok"
    /\ rpc = "returned" /\ rret # "Ok" =>
          Cardinality(FailedAttempts) = retry_limit
    /\ rpc = "returned" /\ Cardinality(FailedAttempts) = retry_limit =>
          Len(execLog) > 0 /\ rret = execLog[Len(execLog)]
    /\ rret # "unreachable"

\* the threads whose call returned a database
Received == {t \in Threads : dpc[t] = "done" /\ dret[t][1] = "Ok"}

\* C27: per fingerprint at most one database is ever created successfully,
\* every caller that gets a database gets the one the map holds for its
\* fingerprint, different fingerprints have different databases, a failed
\* creation leaves the map as it was, and an entry once made is never
\* replaced or removed.
C27_OneDatabasePerFingerprint ==
    /\ [](\A f \in Fingerprints : created[f] <= 1)
    /\ [](\A t \in Received :
            /\ configured_databases[fingerprint[t]] # 0
            /\ dret[t][2] = configured_databases[fingerprint[t]])
    /\ [](\A f, g \in Fingerprints :
            f # g /\ configured_databases[f] # 0 =>
                configured_databases[f] # configured_databases[g])
    /\ [](\A f \in Fingerprints :
            (configured_databases[f] # 0) = (created[f] = 1))
    /\ [][/\ createFailed' # createFailed =>
                configured_databases' = configured_databases
          /\ \A f \in Fingerprints :
                configured_databases[f] # 0 =>
                    configured_databases'[f] = configured_databases[f]]_vars

\* A creation for fingerprint 1 failed, a later one succeeded, and two
\* callers that both missed the entry under the read guard hold the one
\* database of fingerprint 1.
C27_Witness ==
    /\ createFailed[1] = 1
    /\ created[1] = 1
    /\ readers = {} /\ writer = 0
    /\ \E t, u \in Received :
          /\ t # u
          /\ fingerprint[t] = 1 /\ fingerprint[u] = 1
          /\ dret[t] = dret[u]

\* every attempt pushed so far has been returned by conn_futures.next()
NoAttemptLeft == \A c \in ConnIds : ~Pending(c)

\* C28: at most two connection-factory calls run at the same time, at most
\* one once a worker has been spawned, and the orchestrator opens an
\* additional attempt only when every earlier attempt has completed and has
\* been taken out of conn_futures.
C28_OneAttemptAtATime ==
    /\ [](InFlightCount <= 2)
    /\ [](SpawnedCount >= 1 => InFlightCount <= 1)
    /\ [][GrowthPush => NoAttemptLeft]_vars

\* An additional attempt is running while two workers exist, with a
\* max_connections that would allow more.
C28_Witness ==
    /\ SpawnedCount = 2
    /\ InFlightCount = 1
    /\ conn[3] = "running"
    /\ pc = "await_conn"
    /\ max_connections >= 3

\* the main loop is at conn_futures.next() and no pushed attempt has
\* completed yet
WaitingForAttempt ==
    /\ pc = "await_conn"
    /\ ~NoAttemptLeft
    /\ \A c \in ConnIds : ~Completed(c)

\* C29: while the main loop waits for a pending attempt the orchestrator
\* stays at conn_futures.next(): no reduce_f call is made, nothing is
\* received, and do_run does not return, whether or not the token is
\* cancelled; the rest of the loop body runs only with conn_futures empty.
C29_WaitsForPendingAttempt ==
    /\ [][WaitingForAttempt =>
            /\ pc' = "await_conn"
            /\ result' = result
            /\ reduceCalls' = reduceCalls
            /\ acc' = acc
            /\ recv_buffer' = recv_buffer
            /\ Len(chan') >= Len(chan)
            /\ hist'.observedAt = hist.observedAt]_vars
    /\ [](pc \in {"grow", "grow_tc", "grow_tt", "grow_cc", "drain", "reduce",
                  "sleep", "check"} => NoAttemptLeft)

\* The token is cancelled and a result is waiting on the channel while the
\* orchestrator waits for a running factory call.
C29_Witness ==
    /\ WaitingForAttempt
    /\ token
    /\ Len(chan) >= 1
    /\ \E c \in ConnIds : conn[c] = "running"
    /\ result = "none"

\* the orchestrator computes remaining_keys (lines 362-369)
LoadsRemainingKeys == pc = "grow" /\ pc' = "grow_tc"

\* C30: key_counter never exceeds keys.len() plus the number of workers
\* spawned, a worker only ever holds an index below keys.len(), and the
\* remaining_keys value the orchestrator computes is keys.len() - key_counter
\* when key_counter < keys.len() and 0 otherwise, hence never negative.
C30_CounterOvershootBounded ==
    /\ [](key_counter <= keysLen + SpawnedCount)
    /\ [](\A w \in ConnIds : HoldsKey(w) => widx[w] \in 0..(keysLen - 1))
    /\ [](ld.rem >= 0 /\ ld.rem <= keysLen)
    /\ [][LoadsRemainingKeys =>
            /\ key_counter < keysLen => ld'.rem = keysLen - key_counter
            /\ key_counter >= keysLen => ld'.rem = 0]_vars

\* Both workers have run past the end of the keys and the orchestrator has
\* computed remaining_keys = 0 from a counter above keys.len().
C30_Witness ==
    /\ pc = "grow_tc"
    /\ ld.rem = 0
    /\ SpawnedCount = 2
    /\ key_counter = keysLen + 2
    /\ keysLen = 3

====
